---- MODULE Spec2Model ----
(***************************************************************************)
(* Receipt scanner: the extraction endpoint (app/api/analyze-receipt/      *)
(* route.ts, POST), the client component that calls it                     *)
(* (components/receipt-scanner.tsx, ReceiptScanner) and the component's    *)
(* display helpers (formatValue, calculateTotalDiscounts).                 *)
(*                                                                         *)
(* Text is a sequence of characters.  Words that the code only ever treats *)
(* as a unit are one character here: "json" (the fence language tag),      *)
(* "null", "true", "false", and the property names "taxes", "discounts",   *)
(* "items", "error", "raw", "merchant", "type", "amount".  "dq" is the     *)
(* double-quote character, "bt" the backtick, "bs" the backslash and " "   *)
(* is whitespace.  Numbers are binary64 values with their rounding.        *)
(***************************************************************************)
EXTENDS Integers, Sequences, FiniteSets, TLC

(***************************************************************************)
(* Bounds of the model.                                                    *)
(***************************************************************************)
\* longest free-form completion text drawn character by character
MaxTextLen == 3
\* most keys of a generated JSON completion object
MaxKeys == 2
\* most uploads in one client run
MaxUploads == 2
\* most extraction requests started in one client run
MaxRequests == 3

(***************************************************************************)
(* Characters and strings.                                                 *)
(***************************************************************************)
DQ == "dq"
WS == " "
BT == "bt"
BS == "bs"
Digits == {"0", "3"}

DigitVal(c) == IF c = "3" THEN 3 ELSE 0

IsWs(c) == c = WS

\* String.prototype.trim
RECURSIVE TrimLeft(_)
TrimLeft(s) ==
    IF s # <<>> /\ IsWs(Head(s)) THEN TrimLeft(Tail(s)) ELSE s

RECURSIVE TrimRight(_)
TrimRight(s) ==
    IF s # <<>> /\ IsWs(s[Len(s)]) THEN TrimRight(SubSeq(s, 1, Len(s) - 1)) ELSE s

Trim(s) == TrimRight(TrimLeft(s))

\* does pat occur in s at position i
MatchAt(s, pat, i) ==
    /\ i + Len(pat) - 1 <= Len(s)
    /\ \A k \in 1..Len(pat) : s[i + k - 1] = pat[k]

\* String.prototype.replace(/pat/g, ""): the leftmost, non-overlapping
\* occurrences of pat are removed in one left-to-right scan
RECURSIVE RemoveAll(_, _)
RemoveAll(s, pat) ==
    IF s = <<>> THEN <<>>
    ELSE IF MatchAt(s, pat, 1) THEN RemoveAll(SubSeq(s, Len(pat) + 1, Len(s)), pat)
    ELSE <<Head(s)>> \o RemoveAll(Tail(s), pat)

FenceJson == <<BT, BT, BT, "json">>
Fence == <<BT, BT, BT>>

(***************************************************************************)
(* Numbers: IEEE 754 binary64 values and their arithmetic, as JavaScript's *)
(* Number type has them.                                                   *)
(***************************************************************************)
DigitChars == <<"0", "1", "2", "3", "4", "5", "6", "7", "8", "9">>

\* the precision of a Number: the significand of an IEEE 754 binary64 value
MantissaBits == 53

\* Natural numbers of any size are sequences of limbs, least significant first,
\* without leading zero limbs; 0 is the empty sequence.
Base == 2 ^ 15

RECURSIVE BitLenInt(_)
BitLenInt(n) == IF n = 0 THEN 0 ELSE 1 + BitLenInt(n \div 2)

LimbBits == BitLenInt(Base) - 1

RECURSIVE Norm(_)
Norm(a) == IF a # <<>> /\ a[Len(a)] = 0 THEN Norm(SubSeq(a, 1, Len(a) - 1)) ELSE a

RECURSIVE LAdd(_, _, _)
LAdd(a, b, carry) ==
    IF a = <<>> /\ b = <<>> THEN (IF carry = 0 THEN <<>> ELSE <<carry>>)
    ELSE LET s == (IF a = <<>> THEN 0 ELSE Head(a)) + (IF b = <<>> THEN 0 ELSE Head(b)) + carry
         IN <<s % Base>> \o LAdd(IF a = <<>> THEN a ELSE Tail(a),
                                 IF b = <<>> THEN b ELSE Tail(b), s \div Base)

\* a - b - borrow, for a >= b + borrow
RECURSIVE LSub(_, _, _)
LSub(a, b, borrow) ==
    IF a = <<>> THEN <<>>
    ELSE LET d == Head(a) - (IF b = <<>> THEN 0 ELSE Head(b)) - borrow
         IN Norm(<<d % Base>> \o LSub(Tail(a), IF b = <<>> THEN b ELSE Tail(b),
                                      IF d < 0 THEN 1 ELSE 0))

LLess(a, b) ==
    \/ Len(a) < Len(b)
    \/ /\ Len(a) = Len(b)
       /\ \E i \in 1..Len(a) :
             /\ a[i] < b[i]
             /\ \A j \in (i + 1)..Len(a) : a[j] = b[j]

\* a * c + carry, for c and carry below Base
RECURSIVE MulSmall(_, _, _)
MulSmall(a, c, carry) ==
    IF a = <<>> THEN (IF carry = 0 THEN <<>> ELSE <<carry>>)
    ELSE LET p == Head(a) * c + carry
         IN Norm(<<p % Base>> \o MulSmall(Tail(a), c, p \div Base))

\* quotient and remainder of a by c, for 0 < c < Base
RECURSIVE DivSmallFrom(_, _, _, _, _)
DivSmallFrom(a, c, i, rem, q) ==
    IF i = 0 THEN [q |-> Norm(q), r |-> rem]
    ELSE LET n == rem * Base + a[i]
         IN DivSmallFrom(a, c, i - 1, n % c, <<n \div c>> \o q)

DivSmall(a, c) == DivSmallFrom(a, c, Len(a), 0, <<>>)

ShiftLeftBits(a, k) ==
    IF a = <<>> \/ k = 0 THEN a
    ELSE [i \in 1..(k \div LimbBits) |-> 0] \o MulSmall(a, 2 ^ (k % LimbBits), 0)

ShiftRightBits(a, k) ==
    IF k \div LimbBits >= Len(a) THEN <<>>
    ELSE DivSmall(SubSeq(a, (k \div LimbBits) + 1, Len(a)), 2 ^ (k % LimbBits)).q


BitLen(a) == IF a = <<>> THEN 0 ELSE LimbBits * (Len(a) - 1) + BitLenInt(a[Len(a)])

RECURSIVE TrailingZerosInt(_)
TrailingZerosInt(n) == IF n % 2 = 1 THEN 0 ELSE 1 + TrailingZerosInt(n \div 2)

RECURSIVE TrailingZeros(_)
TrailingZeros(a) ==
    IF Head(a) = 0 THEN LimbBits + TrailingZeros(Tail(a)) ELSE TrailingZerosInt(Head(a))

IsOdd(a) == a # <<>> /\ a[1] % 2 = 1

\* a * 10^k and the quotient of a by 10^k (exact: nothing was left over)
RECURSIVE MulPow10(_, _)
MulPow10(a, k) == IF k = 0 THEN a ELSE MulPow10(MulSmall(a, 10, 0), k - 1)

RECURSIVE DivPow10(_, _, _)
DivPow10(a, k, exact) ==
    IF k = 0 THEN [q |-> a, exact |-> exact]
    ELSE LET d == DivSmall(a, 10) IN DivPow10(d.q, k - 1, exact /\ d.r = 0)

\* the decimal digits of a, most significant first; none for 0
RECURSIVE DecimalChars(_)
DecimalChars(a) ==
    IF a = <<>> THEN <<>>
    ELSE LET d == DivSmall(a, 10) IN DecimalChars(d.q) \o <<DigitChars[d.r + 1]>>

\* A finite Number is (-1)^neg * m * 2^e with m odd and below 2^MantissaBits;
\* 0 has m = <<>>.  The exponent range of binary64 is not reached by the amounts
\* of the model, so overflow to Infinity and subnormals are left out; so is -0.
Zero == [neg |-> FALSE, m |-> <<>>, e |-> 0]

Canon(neg, m, e) ==
    IF Norm(m) = <<>> THEN Zero
    ELSE LET tz == TrailingZeros(m)
         IN [neg |-> neg, m |-> ShiftRightBits(Norm(m), tz), e |-> e + tz]

\* round to nearest, ties to even
RoundToDouble(x) ==
    IF BitLen(x.m) <= MantissaBits THEN x
    ELSE LET k == BitLen(x.m) - MantissaBits
             withGuard == ShiftRightBits(x.m, k - 1)
             sticky == ShiftLeftBits(withGuard, k - 1) # x.m
             kept == ShiftRightBits(withGuard, 1)
             up == IsOdd(withGuard) /\ (sticky \/ IsOdd(kept))
         IN Canon(x.neg, IF up THEN LAdd(kept, <<1>>, 0) ELSE kept, x.e + k)

ExactAdd(x, y) ==
    IF x.m = <<>> THEN y
    ELSE IF y.m = <<>> THEN x
    ELSE LET e == IF x.e < y.e THEN x.e ELSE y.e
             mx == ShiftLeftBits(x.m, x.e - e)
             my == ShiftLeftBits(y.m, y.e - e)
         IN IF x.neg = y.neg THEN Canon(x.neg, LAdd(mx, my, 0), e)
            ELSE IF LLess(mx, my) THEN Canon(y.neg, LSub(my, mx, 0), e)
            ELSE Canon(x.neg, LSub(mx, my, 0), e)

\* x + y of two Numbers
NumberAdd(x, y) == RoundToDouble(ExactAdd(x, y))

\* the Number nearest to d / 10^k: what a decimal literal denotes
DecimalToNumber(neg, d, k) ==
    IF d = <<>> THEN Zero
    ELSE LET s0 == MantissaBits + 2 + 4 * k - BitLen(d)
             s == IF s0 < 0 THEN 0 ELSE s0
             dv == DivPow10(ShiftLeftBits(d, s), k, TRUE)
         IN RoundToDouble(Canon(neg, MulSmall(dv.q, 2, IF dv.exact THEN 0 ELSE 1), -s - 1))

\* the integer nearest to |x| * 10^k, the larger one of two
RoundScaled(x, k) ==
    LET n == MulPow10(x.m, k) IN
    IF x.e >= 0 THEN ShiftLeftBits(n, x.e)
    ELSE ShiftRightBits(LAdd(ShiftRightBits(n, -x.e - 1), <<1>>, 0), 1)

\* the digits of n written with k of them after the point
PointChars(n, k) ==
    LET ds == DecimalChars(n)
        pad == IF Len(ds) > k THEN ds ELSE [i \in 1..(k + 1 - Len(ds)) |-> "0"] \o ds
    IN IF k = 0 THEN pad
       ELSE SubSeq(pad, 1, Len(pad) - k) \o <<".">> \o SubSeq(pad, Len(pad) - k + 1, Len(pad))

\* Number.prototype.toFixed(digits), for |x| < 10^21
ToFixed(x, digits) ==
    (IF x.neg THEN <<"-">> ELSE <<>>) \o PointChars(RoundScaled(x, digits), digits)

\* the shortest decimal that denotes x
RECURSIVE ShortestDecimal(_, _)
ShortestDecimal(x, k) ==
    LET n == RoundScaled(x, k) IN
    IF DecimalToNumber(x.neg, n, k) = x THEN [n |-> n, k |-> k] ELSE ShortestDecimal(x, k + 1)

\* Number::toString, for 10^-6 <= |x| < 10^21
NumberToString(x) ==
    LET s == ShortestDecimal(x, 0) IN
    (IF x.neg THEN <<"-">> ELSE <<>>) \o PointChars(s.n, s.k)

RECURSIVE LimbsOf(_)
LimbsOf(n) == IF n = 0 THEN <<>> ELSE <<n % Base>> \o LimbsOf(n \div Base)

\* the Number of a natural number n
NumberOf(n) == RoundToDouble(Canon(FALSE, LimbsOf(n), 0))

(***************************************************************************)
(* JavaScript values, as JSON.parse builds them.                           *)
(***************************************************************************)
Undefined == [t |-> "undefined"]
JNull == [t |-> "null"]
JBool(b) == [t |-> "bool", v |-> b]
\* a number value; JNum(n) is the one of the natural number n
JNumber(x) == [t |-> "num", v |-> x]
JNum(n) == JNumber(NumberOf(n))
JStr(s) == [t |-> "str", v |-> s]
JArr(a) == [t |-> "arr", v |-> a]
JObj(f) == [t |-> "obj", v |-> f]
EmptyObj == JObj(<<>>)

\* ToBoolean
Truthy(x) ==
    CASE x.t = "undefined" -> FALSE
      [] x.t = "null" -> FALSE
      [] x.t = "bool" -> x.v
      [] x.t = "num" -> x.v # Zero
      [] x.t = "str" -> x.v # <<>>
      [] OTHER -> TRUE

\* Array.isArray
IsArray(x) == x.t = "arr"

\* typeof x === "object"
TypeofObject(x) == x.t \in {"obj", "arr", "null"}

HasKey(x, k) == x.t = "obj" /\ k \in DOMAIN x.v

\* x.k for a value that is neither null nor undefined
Get(x, k) == IF HasKey(x, k) THEN x.v[k] ELSE Undefined

\* x.k = val
Put(x, k, val) == JObj((k :> val) @@ x.v)

(***************************************************************************)
(* JSON.parse: a recursive-descent parser over the characters.             *)
(***************************************************************************)
ParseFail == [ok |-> FALSE, val |-> Undefined, nxt |-> 0]
ParseOk(val, nxt) == [ok |-> TRUE, val |-> val, nxt |-> nxt]

RECURSIVE SkipWs(_, _)
SkipWs(s, i) == IF i <= Len(s) /\ IsWs(s[i]) THEN SkipWs(s, i + 1) ELSE i

\* the digits after the first one of a number
RECURSIVE ParseDigits(_, _, _)
ParseDigits(s, i, acc) ==
    IF i <= Len(s) /\ s[i] \in Digits
    THEN ParseDigits(s, i + 1, 10 * acc + DigitVal(s[i]))
    ELSE ParseOk(JNum(acc), i)

\* a number: "0", or a non-zero digit followed by digits
ParseNumber(s, i) ==
    IF s[i] = "0" THEN ParseOk(JNum(0), i + 1)
    ELSE ParseDigits(s, i + 1, DigitVal(s[i]))

\* a string: everything up to the next unescaped double quote; a backslash
\* escapes a double quote or a backslash
RECURSIVE ParseString(_, _, _)
ParseString(s, i, acc) ==
    IF i > Len(s) THEN ParseFail
    ELSE IF s[i] = DQ THEN ParseOk(JStr(acc), i + 1)
    ELSE IF s[i] = BS
         THEN IF i + 1 <= Len(s) /\ s[i + 1] \in {DQ, BS}
              THEN ParseString(s, i + 2, Append(acc, s[i + 1]))
              ELSE ParseFail
    ELSE ParseString(s, i + 1, Append(acc, s[i]))

RECURSIVE ParseValue(_, _)
RECURSIVE ParseElems(_, _, _)
RECURSIVE ParseMembers(_, _, _)

\* the elements of an array, after "[" or ","
ParseElems(s, i, acc) ==
    LET r == ParseValue(s, i) IN
    IF ~r.ok THEN ParseFail
    ELSE LET j == SkipWs(s, r.nxt) IN
         IF j > Len(s) THEN ParseFail
         ELSE IF s[j] = "," THEN ParseElems(s, j + 1, Append(acc, r.val))
         ELSE IF s[j] = "]" THEN ParseOk(JArr(Append(acc, r.val)), j + 1)
         ELSE ParseFail

\* the members of an object, after "{" or ","; a repeated key keeps its last value
ParseMembers(s, i, acc) ==
    LET j == SkipWs(s, i) IN
    IF j > Len(s) \/ s[j] # DQ THEN ParseFail
    ELSE LET k == ParseString(s, j + 1, <<>>) IN
         IF ~k.ok THEN ParseFail
         ELSE LET c == SkipWs(s, k.nxt) IN
              IF c > Len(s) \/ s[c] # ":" THEN ParseFail
              ELSE LET r == ParseValue(s, c + 1) IN
                   IF ~r.ok THEN ParseFail
                   ELSE LET e == SkipWs(s, r.nxt)
                            obj == (k.val.v :> r.val) @@ acc
                        IN IF e > Len(s) THEN ParseFail
                           ELSE IF s[e] = "," THEN ParseMembers(s, e + 1, obj)
                           ELSE IF s[e] = "}" THEN ParseOk(JObj(obj), e + 1)
                           ELSE ParseFail

ParseValue(s, i) ==
    LET j == SkipWs(s, i) IN
    IF j > Len(s) THEN ParseFail
    ELSE CASE s[j] = "null" -> ParseOk(JNull, j + 1)
           [] s[j] = "true" -> ParseOk(JBool(TRUE), j + 1)
           [] s[j] = "false" -> ParseOk(JBool(FALSE), j + 1)
           [] s[j] \in Digits -> ParseNumber(s, j)
           [] s[j] = DQ -> ParseString(s, j + 1, <<>>)
           [] s[j] = "[" ->
                LET k == SkipWs(s, j + 1) IN
                IF k <= Len(s) /\ s[k] = "]" THEN ParseOk(JArr(<<>>), k + 1)
                ELSE ParseElems(s, j + 1, <<>>)
           [] s[j] = "{" ->
                LET k == SkipWs(s, j + 1) IN
                IF k <= Len(s) /\ s[k] = "}" THEN ParseOk(EmptyObj, k + 1)
                ELSE ParseMembers(s, j + 1, <<>>)
           [] OTHER -> ParseFail

\* JSON.parse(s): ok is FALSE where it throws a SyntaxError
JsonParse(s) ==
    LET r == ParseValue(s, 1) IN
    IF r.ok /\ SkipWs(s, r.nxt) > Len(s) THEN [ok |-> TRUE, val |-> r.val]
    ELSE [ok |-> FALSE, val |-> Undefined]

(***************************************************************************)
(* JSON.stringify, as NextResponse.json and the client's request use it.   *)
(***************************************************************************)
RECURSIVE EscapeChars(_)
EscapeChars(s) ==
    IF s = <<>> THEN <<>>
    ELSE (IF Head(s) \in {DQ, BS} THEN <<BS, Head(s)>> ELSE <<Head(s)>>)
            \o EscapeChars(Tail(s))

RECURSIVE Stringify(_)
RECURSIVE StringifyElems(_, _)
RECURSIVE StringifyMembers(_, _)

StringifyElems(a, i) ==
    IF i > Len(a) THEN <<>>
    ELSE (IF i > 1 THEN <<",">> ELSE <<>>) \o Stringify(a[i]) \o StringifyElems(a, i + 1)

StringifyMembers(f, keys) ==
    IF keys = {} THEN <<>>
    ELSE LET k == CHOOSE x \in keys : TRUE IN
         <<DQ>> \o EscapeChars(k) \o <<DQ, ":">> \o Stringify(f[k])
            \o (IF keys = {k} THEN <<>> ELSE <<",">>)
            \o StringifyMembers(f, keys \ {k})

Stringify(x) ==
    CASE x.t = "null" -> <<"null">>
      [] x.t = "bool" -> IF x.v THEN <<"true">> ELSE <<"false">>
      [] x.t = "num" -> NumberToString(x.v)
      [] x.t = "str" -> <<DQ>> \o EscapeChars(x.v) \o <<DQ>>
      [] x.t = "arr" -> <<"[">> \o StringifyElems(x.v, 1) \o <<"]">>
      [] x.t = "obj" -> <<"{">> \o StringifyMembers(x.v, DOMAIN x.v) \o <<"}">>

(***************************************************************************)
(* The response normalizer: route.ts, lines 108-156.                       *)
(***************************************************************************)
KTaxes == <<"taxes">>
KDiscounts == <<"discounts">>
KItems == <<"items">>
KError == <<"error">>
KRaw == <<"raw">>
KMerchant == <<"merchant">>
KType == <<"type">>
KAmount == <<"amount">>
KText == <<"text">>

MsgNoText == <<"No text provided">>
MsgUpstream == <<"Failed to analyze receipt">>
MsgParse == <<"Could not parse structured data">>
MsgServer == <<"Failed to process request">>

\* the clean-up, had it only removed the bare fence marker
CleanTextBareFence(generatedText) ==
    Trim(RemoveAll(generatedText, Fence))

\* generatedText.replace(/```json/g, "").replace(/```/g, "").trim()
CleanText(generatedText) ==
    Trim(RemoveAll(RemoveAll(generatedText, FenceJson), Fence))

\* the coercion, had it defaulted an absent or empty field to an empty array
CoerceChargesDefaulting(parsedData, k) ==
    LET v == Get(parsedData, k) IN
    IF parsedData.t = "obj" /\ ~IsArray(v)
    THEN IF Truthy(v) /\ TypeofObject(v) THEN Put(parsedData, k, JArr(<<v>>))
         ELSE Put(parsedData, k, JArr(<<>>))
    ELSE parsedData

\* "Ensure taxes is an array of objects" / "Ensure discounts is an array of objects"
CoerceCharges(parsedData, k) ==
    LET v == Get(parsedData, k) IN
    IF Truthy(v) /\ ~IsArray(v)
    THEN IF TypeofObject(v) THEN Put(parsedData, k, JArr(<<v>>))
         ELSE Put(parsedData, k, JArr(<<>>))
    ELSE parsedData

\* "Ensure items is an array"
CoerceItems(parsedData) ==
    LET v == Get(parsedData, KItems) IN
    IF Truthy(v) /\ ~IsArray(v) THEN Put(parsedData, KItems, JArr(<<v>>))
    ELSE parsedData

\* if (parsedData) { ... }
Coerce(parsedData) ==
    IF Truthy(parsedData)
    THEN CoerceItems(CoerceCharges(CoerceCharges(parsedData, KTaxes), KDiscounts))
    ELSE parsedData

\* the inner catch, had it returned the cleaned text
DegradedCleaned(generatedText) ==
    JObj((KRaw :> (IF generatedText.t = "str" THEN JStr(CleanText(generatedText.v))
                   ELSE generatedText))
         @@ (KError :> JStr(MsgParse)))

\* the record of the inner catch
Degraded(generatedText) ==
    JObj((KRaw :> generatedText) @@ (KError :> JStr(MsgParse)))

\* lines 112-156: the value handed to NextResponse.json; calling .replace on a
\* generatedText that is not a string throws inside the inner try
Normalize(generatedText) ==
    IF generatedText.t # "str" THEN Degraded(generatedText)
    ELSE LET r == JsonParse(CleanText(generatedText.v)) IN
         IF r.ok THEN Coerce(r.val) ELSE Degraded(generatedText)

(***************************************************************************)
(* The inputs of the endpoint: request bodies, upstream answers and        *)
(* completion texts.                                                       *)
(***************************************************************************)
Alphabet == {BT, "json", WS, "{", "}", DQ, "3", "a"}

TextsUpTo(n) == UNION {[1..k -> Alphabet] : k \in 0..n}

Charge == JObj((KType :> JStr(<<"a">>)) @@ (KAmount :> JNum(3)))

ChargeVals ==
    {JNull, JNum(0), JStr(<<>>), JNum(3), JStr(<<"a">>), Charge, JArr(<<>>),
     JArr(<<Charge>>)}

DocKeys == {KTaxes, KDiscounts, KItems, KMerchant, KError, KRaw}

KeyVals(k) ==
    CASE k \in {KTaxes, KDiscounts, KItems} -> ChargeVals
      [] k = KMerchant -> {JStr(<<"a">>), JStr(<<BT, BT, BT>>)}
      [] k = KError -> {JStr(<<"a">>), JStr(<<>>)}
      [] k = KRaw -> {JStr(<<"a">>)}

AllVals == UNION {KeyVals(k) : k \in DocKeys}

\* JSON objects with at most MaxKeys of the keys
Docs ==
    UNION {{JObj(f) : f \in {g \in [ks -> AllVals] : \A k \in ks : g[k] \in KeyVals(k)}} :
              ks \in {q \in SUBSET DocKeys : Cardinality(q) <= MaxKeys}}

\* JSON documents that are not objects
TopVals == {JNull, JBool(FALSE), JNum(0), JArr(<<Charge>>)}

\* c inside a ```json ... ``` fence, with whitespace ws around it
FenceWrap(c, ws) == ws \o FenceJson \o ws \o c \o ws \o Fence \o ws

Decorate(c) ==
    {c, SubSeq(c, 1, Len(c) - 1), FenceWrap(c, <<>>), FenceWrap(c, <<WS>>),
     Fence \o c \o Fence, <<WS>> \o c}

Completions ==
    TextsUpTo(MaxTextLen) \cup UNION {Decorate(Stringify(d)) : d \in Docs \cup TopVals}

KCandidates == <<"candidates">>
KContent == <<"content">>
KParts == <<"parts">>

\* the body of a successful answer of the completion service carrying text t
GeminiData(t) ==
    JObj(KCandidates :> JArr(<<JObj(KContent :>
        JObj(KParts :> JArr(<<JObj(KText :> t)>>)))>>))

RequestTexts == {<<>>, <<WS>>, <<WS, "a">>}

\* what request.json() resolves to
RequestBodies ==
    {JNull, JNum(3), EmptyObj, JObj(KText :> JNull), JObj(KText :> JNum(0)),
     JObj(KText :> JNum(3))}
        \cup {JObj(KText :> JStr(t)) : t \in RequestTexts}

UpstreamStatuses == {200, 400, 429, 500, 503}

\* Response.ok
Ok(status) == status >= 200 /\ status <= 299

(***************************************************************************)
(* The endpoint: route.ts, POST.                                           *)
(***************************************************************************)
\* x?.k
OptGet(x, k) == IF x.t \in {"undefined", "null"} THEN Undefined ELSE Get(x, k)

\* x?.[0]
OptFirst(x) == IF x.t = "arr" /\ Len(x.v) >= 1 THEN x.v[1] ELSE Undefined

\* data.candidates?.[0]?.content?.parts?.[0]?.text || ""
ExtractText(data) ==
    LET u == OptGet(OptFirst(OptGet(OptGet(OptFirst(Get(data, KCandidates)), KContent),
                                    KParts)), KText)
    IN IF Truthy(u) THEN u ELSE JStr(<<>>)

Returns(status, body) == [kind |-> "return", resp |-> [status |-> status, body |-> body]]
Throws == [kind |-> "throw", resp |-> [status |-> 0, body |-> Undefined]]
ErrorBody(msg) == JObj(KError :> JStr(msg))

\* the handler without its outer catch: a thrown exception leaves no response
OuterCatchRethrows(outcome) ==
    IF outcome.kind = "throw" THEN <<>> ELSE <<outcome.resp>>

\* the outer try/catch: the responses the handler resolves to
OuterCatch(outcome) ==
    IF outcome.kind = "throw"
    THEN <<[status |-> 500, body |-> ErrorBody(MsgServer)]>>
    ELSE <<outcome.resp>>

\* lines 5-9: destructuring and validation; "pass" lets the handler go on
Validate(body) ==
    IF body.t \in {"null", "undefined"} THEN Throws
    ELSE LET t == Get(body, KText) IN
         IF ~Truthy(t) THEN Returns(400, ErrorBody(MsgNoText))
         ELSE IF t.t # "str" THEN Throws
         ELSE IF Trim(t.v) = <<>> THEN Returns(400, ErrorBody(MsgNoText))
         ELSE [kind |-> "pass", resp |-> [status |-> 0, body |-> Undefined]]

\* lines 100-104: await response.text() resolves (readable) or rejects
HandleUpstreamError(status, readable) ==
    IF readable THEN Returns(status, ErrorBody(MsgUpstream)) ELSE Throws

\* lines 106-156
HandleData(data) ==
    IF data.t \in {"null", "undefined"} THEN Throws
    ELSE Returns(200, Normalize(ExtractText(data)))

\* what await response.json() of the completion service resolves to
UpstreamData(completions) ==
    {JNull, EmptyObj, JObj(KCandidates :> JArr(<<>>)), GeminiData(JNum(3))}
        \cup {GeminiData(JStr(c)) : c \in completions}

\* every response POST can resolve to for a request body, over the answers of
\* the completion service (its texts drawn from completions)
EndpointResponses(body, completions) ==
    LET v == Validate(body) IN
    IF v.kind # "pass" THEN {OuterCatch(v)[1]}
    ELSE {OuterCatch(Throws)[1]}
            \cup {OuterCatch(HandleUpstreamError(st, rd))[1] :
                     st \in {u \in UpstreamStatuses : ~Ok(u)}, rd \in BOOLEAN}
            \cup {OuterCatch(HandleData(d))[1] : d \in UpstreamData(completions)}

(***************************************************************************)
(* The display helpers: receipt-scanner.tsx, formatValue and               *)
(* calculateTotalDiscounts.                                                *)
(***************************************************************************)
KUsd == <<"USD">>

DecimalDigits == {DigitChars[i] : i \in 1..10}
DecimalDigitVal(c) == CHOOSE n \in 0..9 : DigitChars[n + 1] = c

\* the length of the run of decimal digits of s that starts at position i
RECURSIVE DigitRun(_, _)
DigitRun(s, i) ==
    IF i <= Len(s) /\ s[i] \in DecimalDigits THEN 1 + DigitRun(s, i + 1) ELSE 0

\* the natural number a sequence of decimal digits spells
RECURSIVE DigitsValue(_, _)
DigitsValue(ds, acc) ==
    IF ds = <<>> THEN acc
    ELSE DigitsValue(Tail(ds), MulSmall(acc, 10, DecimalDigitVal(Head(ds))))

\* Number.parseFloat of a string: leading whitespace is skipped and the longest
\* prefix that is a decimal literal (sign, digits, point, digits) is its value;
\* nan where there is none.  The strings of the model hold no exponent part and
\* never spell "Infinity".
ParseFloat(s) ==
    LET t == TrimLeft(s)
        signed == t # <<>> /\ Head(t) \in {"-", "+"}
        u == IF signed THEN Tail(t) ELSE t
        whole == DigitRun(u, 1)
        point == whole + 1 <= Len(u) /\ u[whole + 1] = "."
        frac == IF point THEN DigitRun(u, whole + 2) ELSE 0
    IN IF whole + frac = 0 THEN [nan |-> TRUE, val |-> Zero]
       ELSE [nan |-> FALSE,
             val |-> DecimalToNumber(signed /\ Head(t) = "-",
                        DigitsValue(SubSeq(u, 1, whole) \o SubSeq(u, whole + 2, whole + 1 + frac),
                                    <<>>),
                        frac)]

\* ToString: String(x) and ${x}
RECURSIVE ToStr(_)
RECURSIVE JoinStr(_, _)

JoinStr(a, i) ==
    IF i > Len(a) THEN <<>>
    ELSE (IF i > 1 THEN <<",">> ELSE <<>>)
            \o (IF a[i].t \in {"null", "undefined"} THEN <<>> ELSE ToStr(a[i]))
            \o JoinStr(a, i + 1)

ToStr(x) ==
    CASE x.t = "undefined" -> <<"undefined">>
      [] x.t = "null" -> <<"null">>
      [] x.t = "bool" -> IF x.v THEN <<"true">> ELSE <<"false">>
      [] x.t = "num" -> NumberToString(x.v)
      [] x.t = "str" -> x.v
      [] x.t = "arr" -> JoinStr(x.v, 1)
      [] x.t = "obj" -> <<"[object Object]">>

\* what a helper call comes to: a returned value, or a thrown TypeError
Returned(val) == [called |-> TRUE, threw |-> FALSE, val |-> val]
NotCalled(val) == [called |-> FALSE, threw |-> FALSE, val |-> val]
TypeErrorOf(val) == [called |-> TRUE, threw |-> TRUE, val |-> val]

\* typeof amount === "number" ? amount.toFixed(2) : amount, as the text it is
\* rendered to
FormatAmount(amount) ==
    IF amount.t = "num" THEN ToFixed(amount.v, 2) ELSE ToStr(amount)

\* lines 47-52: one element of an array; item.type of null throws
ItemThrows(item) == item.t = "null"

FormatItem(item) ==
    IF TypeofObject(item) /\ Truthy(Get(item, KType)) /\ Get(item, KAmount).t # "undefined"
    THEN ToStr(Get(item, KType)) \o <<":", " ">> \o FormatAmount(Get(item, KAmount))
    ELSE Stringify(item)

\* .map(...).join(", ")
RECURSIVE JoinItems(_, _)
JoinItems(a, i) ==
    IF i > Len(a) THEN <<>>
    ELSE (IF i > 1 THEN <<",", " ">> ELSE <<>>) \o FormatItem(a[i]) \o JoinItems(a, i + 1)

\* an object, had every type been rendered as a currency prefix
FormatObjectPrefixAlways(value) ==
    IF Get(value, KAmount).t # "undefined"
    THEN LET formattedAmount == FormatAmount(Get(value, KAmount))
         IN IF Truthy(Get(value, KType)) THEN <<"$">> \o formattedAmount ELSE formattedAmount
    ELSE Stringify(value)

\* lines 56-75: an object
FormatObject(value) ==
    IF Get(value, KAmount).t # "undefined"
    THEN LET formattedAmount == FormatAmount(Get(value, KAmount))
             type == Get(value, KType)
         IN IF Truthy(type)
            THEN IF type.t = "str" /\ type.v = KUsd THEN <<"$">> \o formattedAmount
                 ELSE formattedAmount \o <<" ">> \o ToStr(type)
            ELSE formattedAmount
    ELSE Stringify(value)

\* formatValue
FormatValue(value) ==
    IF value.t \in {"null", "undefined"} THEN Returned(<<"-">>)
    ELSE IF IsArray(value)
         THEN IF \E i \in 1..Len(value.v) : ItemThrows(value.v[i]) THEN TypeErrorOf(<<>>)
              ELSE Returned(JoinItems(value.v, 1))
    ELSE IF TypeofObject(value) THEN Returned(FormatObject(value))
    ELSE IF value.t = "num" THEN Returned(ToFixed(value.v, 2))
    ELSE Returned(ToStr(value))

\* the amount, had texts not been parsed
AmountOfNumbersOnly(amount) ==
    IF amount.t = "num" THEN amount.v ELSE Zero

\* typeof amount === "number" ? amount : Number.parseFloat(amount) || 0
AmountOf(amount) ==
    IF amount.t = "num" THEN amount.v
    ELSE LET r == ParseFloat(ToStr(amount)) IN
         IF r.nan \/ r.val = Zero THEN Zero ELSE r.val

\* discounts.reduce((total, discount) => total + amount, 0), from element i on
RECURSIVE Reduce(_, _, _)
Reduce(discounts, i, total) ==
    IF i > Len(discounts) THEN total
    ELSE Reduce(discounts, i + 1, NumberAdd(total, AmountOf(Get(discounts[i], KAmount))))

\* calculateTotalDiscounts; discount.amount of a null element throws
CalculateTotalDiscounts(discounts) ==
    IF ~Truthy(discounts) THEN Returned(Zero)
    ELSE IF IsArray(discounts)
         THEN IF \E i \in 1..Len(discounts.v) : discounts.v[i].t = "null"
              THEN TypeErrorOf(Zero)
              ELSE Returned(Reduce(discounts.v, 1, Zero))
    ELSE IF TypeofObject(discounts) /\ Get(discounts, KAmount).t # "undefined"
         THEN Returned(AmountOf(Get(discounts, KAmount)))
    ELSE IF discounts.t = "num" THEN Returned(discounts.v)
    ELSE Returned(Zero)

(***************************************************************************)
(* The inputs of the display helpers.                                      *)
(***************************************************************************)
\* most entries of a taxes / discounts array
MaxEntries == 3

\* the number a JSON number literal denotes
NumLit(chars) == JNumber(ParseFloat(chars).val)

TypeSalesTax == <<"Sales Tax">>

\* amounts a receipt can carry: numbers, numeric texts, other texts
NumberAmounts ==
    {NumLit(<<"0">>), NumLit(<<"3">>), NumLit(<<"3", ".", "5">>),
     NumLit(<<"1", ".", "0", "0", "5">>), NumLit(<<"0", ".", "1">>)}

TextAmounts == {JStr(<<"3", ".", "5", "0">>), JStr(<<"3", ".", "5">>), JStr(<<"a">>), JStr(<<>>)}

\* an object with the given type and amount, a key left out where it is undefined
Tagged(type, amount) ==
    JObj([k \in {q \in {KType, KAmount} :
                    (IF q = KType THEN type ELSE amount).t # "undefined"} |->
             IF k = KType THEN type ELSE amount])

TaggedValues ==
    {Tagged(type, amount) :
        type \in {Undefined, JStr(KUsd), JStr(TypeSalesTax), JStr(<<>>)},
        amount \in {Undefined, NumLit(<<"3", ".", "5">>), NumLit(<<"1", ".", "0", "0", "5">>),
                    JStr(<<"3", ".", "5">>), JStr(<<"3", ".", "5", "a">>), JStr(<<"a">>)}}

\* the entries of taxes / discounts arrays
ChargeEntries ==
    {Tagged(JStr(TypeSalesTax), NumLit(<<"0", ".", "1">>)),
     Tagged(JStr(TypeSalesTax), NumLit(<<"0", ".", "2">>)),
     Tagged(JStr(TypeSalesTax), NumLit(<<"0", ".", "3">>)),
     Tagged(JStr(TypeSalesTax), JStr(<<"3", ".", "5", "0">>)),
     Tagged(Undefined, NumLit(<<"-", "0", ".", "3">>)),
     Tagged(Undefined, JStr(<<"a">>)),
     Tagged(JStr(TypeSalesTax), Undefined)}

ChargeArrays == UNION {{JArr(a) : a \in [1..n -> ChargeEntries]} : n \in 0..MaxEntries}

\* what the component hands to formatValue and calculateTotalDiscounts
HelperInputs ==
    {Undefined, JNull, JBool(TRUE)} \cup NumberAmounts \cup TextAmounts
        \cup TaggedValues \cup ChargeArrays

(***************************************************************************)
(* The inputs of the client.                                               *)
(***************************************************************************)
\* what the OCR pass can extract from an image
Transcripts == {<<>>, <<WS>>, <<"a">>, <<"b">>}

\* the completions the client runs are checked with
ClientCompletions ==
    {<<"Sorry">>, <<"null">>, Stringify(JObj(KMerchant :> JStr(<<"a">>)))}

MsgInvalidFile == <<"Please upload a valid image file (JPG or PNG)">>
MsgOcr == <<"Error processing image. Please try again.">>
MsgAnalysis == <<"Failed to analyze receipt. Please try again.">>

VARIABLES pc, reqBody, calls, upStatus, generatedText, responses,
          text, progress, isProcessing, isAnalyzing, error, structuredData,
          uploads, ocr, started, inflight,
          arg, formatted, summed

serverVars == <<pc, reqBody, calls, upStatus, generatedText, responses>>
clientVars == <<text, progress, isProcessing, isAnalyzing, error, structuredData,
                uploads, ocr, started, inflight>>
helperVars == <<arg, formatted, summed>>
vars == <<serverVars, clientVars, helperVars>>

Finish(outcome) ==
    /\ responses' = responses \o OuterCatch(outcome)
    /\ pc' = "done"

Init ==
    /\ pc = "requestJson"
    /\ reqBody = Undefined
    /\ calls = 0
    /\ upStatus = 0
    /\ generatedText = Undefined
    /\ responses = <<>>
    /\ text = <<>>
    /\ progress = 0
    /\ isProcessing = FALSE
    /\ isAnalyzing = FALSE
    /\ error = JNull
    /\ structuredData = JNull
    /\ uploads = 0
    /\ ocr = {}
    /\ started = 0
    /\ inflight = {}
    /\ arg = Undefined
    /\ formatted = NotCalled(<<>>)
    /\ summed = NotCalled(Zero)

\* line 5: await request.json() rejects
RequestUnreadable ==
    /\ pc = "requestJson"
    /\ Finish(Throws)
    /\ UNCHANGED <<reqBody, calls, upStatus, generatedText>>
    /\ UNCHANGED <<clientVars, helperVars>>

\* line 5: await request.json() resolves
RequestJson ==
    /\ pc = "requestJson"
    /\ \E b \in RequestBodies : reqBody' = b
    /\ pc' = "validate"
    /\ UNCHANGED <<calls, upStatus, generatedText, responses>>
    /\ UNCHANGED <<clientVars, helperVars>>

\* lines 5-98: validation, the prompt and the call of the completion service
ValidateAndFetch ==
    /\ pc = "validate"
    /\ LET v == Validate(reqBody) IN
       IF v.kind = "pass"
       THEN /\ calls' = calls + 1
            /\ pc' = "fetch"
            /\ UNCHANGED responses
       ELSE /\ Finish(v)
            /\ UNCHANGED calls
    /\ UNCHANGED <<reqBody, upStatus, generatedText>>
    /\ UNCHANGED <<clientVars, helperVars>>

\* line 76: the fetch rejects (transport failure)
FetchRejects ==
    /\ pc = "fetch"
    /\ Finish(Throws)
    /\ UNCHANGED <<reqBody, calls, upStatus, generatedText>>
    /\ UNCHANGED <<clientVars, helperVars>>

\* line 76: the fetch resolves with a status
FetchResolves ==
    /\ pc = "fetch"
    /\ \E s \in UpstreamStatuses : upStatus' = s
    /\ pc' = IF Ok(upStatus') THEN "json" ELSE "errorText"
    /\ UNCHANGED <<reqBody, calls, generatedText, responses>>
    /\ UNCHANGED <<clientVars, helperVars>>

\* lines 100-104: the error body is read and the status passed on, or reading it throws
UpstreamError ==
    /\ pc = "errorText"
    /\ \E readable \in BOOLEAN : Finish(HandleUpstreamError(upStatus, readable))
    /\ UNCHANGED <<reqBody, calls, upStatus, generatedText>>
    /\ UNCHANGED <<clientVars, helperVars>>

\* line 106: await response.json() rejects
DataUnreadable ==
    /\ pc = "json"
    /\ Finish(Throws)
    /\ UNCHANGED <<reqBody, calls, upStatus, generatedText>>
    /\ UNCHANGED <<clientVars, helperVars>>

\* lines 106-156: the answer is read and normalized
DataJson ==
    /\ pc = "json"
    /\ \E data \in UpstreamData(Completions) :
          /\ generatedText' = (IF data.t = "null" THEN Undefined ELSE ExtractText(data))
          /\ Finish(HandleData(data))
    /\ UNCHANGED <<reqBody, calls, upStatus>>
    /\ UNCHANGED <<clientVars, helperVars>>

Next ==
    \/ RequestUnreadable
    \/ RequestJson
    \/ ValidateAndFetch
    \/ FetchRejects
    \/ FetchResolves
    \/ UpstreamError
    \/ DataUnreadable
    \/ DataJson

Spec == Init /\ [][Next]_vars
(***************************************************************************)
(* The client: receipt-scanner.tsx, ReceiptScanner.                        *)
(***************************************************************************)
\* lines 164-175: analyzeReceiptText up to its await of the fetch
StartAnalysis(textToAnalyze) ==
    /\ started < MaxRequests
    /\ isAnalyzing' = TRUE
    /\ error' = JNull
    /\ started' = started + 1
    /\ inflight' = inflight \cup {[id |-> started + 1, transcript |-> textToAnalyze]}

\* lines 197-223 and 117-138: a file is chosen; kind is what the chosen file is
\* ("invalid": not a JPG or PNG; "throws": Tesseract.recognize throws at once)
HandleFileChange ==
    /\ uploads < MaxUploads
    /\ uploads' = uploads + 1
    /\ text' = <<>>
    /\ progress' = 0
    /\ structuredData' = JNull
    /\ \E kind \in {"invalid", "valid", "throws"} :
          CASE kind = "invalid" ->
                 /\ error' = JStr(MsgInvalidFile)
                 /\ UNCHANGED <<isProcessing, ocr>>
            [] kind = "valid" ->
                 /\ error' = JNull
                 /\ isProcessing' = TRUE
                 /\ ocr' = ocr \cup {uploads + 1}
            [] kind = "throws" ->
                 /\ error' = JStr(MsgOcr)
                 /\ isProcessing' = FALSE
                 /\ UNCHANGED ocr
    /\ UNCHANGED <<isAnalyzing, started, inflight>>
    /\ UNCHANGED <<serverVars, helperVars>>

\* lines 139-149 and 154-156: the OCR pass resolves with the extracted text
OcrResolves ==
    /\ \E job \in ocr, extractedText \in Transcripts :
          /\ ocr' = ocr \ {job}
          /\ text' = extractedText
          /\ progress' = 100
          /\ IF Trim(extractedText) # <<>>
             THEN StartAnalysis(extractedText)
             ELSE UNCHANGED <<isAnalyzing, error, started, inflight>>
    /\ isProcessing' = FALSE
    /\ UNCHANGED <<structuredData, uploads>>
    /\ UNCHANGED <<serverVars, helperVars>>

\* lines 150-156: the OCR pass rejects
OcrRejects ==
    /\ \E job \in ocr : ocr' = ocr \ {job}
    /\ error' = JStr(MsgOcr)
    /\ isProcessing' = FALSE
    /\ UNCHANGED <<text, progress, isAnalyzing, structuredData, uploads, started, inflight>>
    /\ UNCHANGED <<serverVars, helperVars>>

\* lines 478-491: the "Analyze with AI" button is rendered and enabled
ManualButtonEnabled ==
    /\ text # <<>>
    /\ ~isAnalyzing
    /\ ~Truthy(structuredData)

\* lines 229-233
HandleManualAnalysis ==
    /\ ManualButtonEnabled
    /\ Trim(text) # <<>>
    /\ StartAnalysis(text)
    /\ UNCHANGED <<text, progress, isProcessing, structuredData, uploads, ocr>>
    /\ UNCHANGED <<serverVars, helperVars>>

\* lines 177-191: what the settled fetch leaves in error and structuredData;
\* the response body crosses the wire as JSON text
AfterResponse(settled) ==
    IF settled.kind = "reject" \/ ~Ok(settled.resp.status)
    THEN [error |-> JStr(MsgAnalysis), structuredData |-> structuredData]
    ELSE LET data == JsonParse(Stringify(settled.resp.body)) IN
         IF ~data.ok \/ data.val.t \in {"null", "undefined"}
         THEN [error |-> JStr(MsgAnalysis), structuredData |-> structuredData]
         ELSE IF Truthy(Get(data.val, KError))
         THEN [error |-> Get(data.val, KError), structuredData |-> structuredData]
         ELSE [error |-> error, structuredData |-> data.val]

\* how the fetch of a request for a transcript can settle
Settlements(transcript) ==
    {[kind |-> "reject", resp |-> [status |-> 0, body |-> Undefined]]}
        \cup {[kind |-> "response", resp |-> r] :
                 r \in EndpointResponses(JObj(KText :> JStr(transcript)), ClientCompletions)}

\* lines 169-194: the fetch of one request settles
AnalysisSettles ==
    /\ \E r \in inflight : \E settled \in Settlements(r.transcript) :
          /\ inflight' = inflight \ {r}
          /\ error' = AfterResponse(settled).error
          /\ structuredData' = AfterResponse(settled).structuredData
    /\ isAnalyzing' = FALSE
    /\ UNCHANGED <<text, progress, isProcessing, uploads, ocr, started>>
    /\ UNCHANGED <<serverVars, helperVars>>

ClientNext ==
    \/ HandleFileChange
    \/ OcrResolves
    \/ OcrRejects
    \/ HandleManualAnalysis
    \/ AnalysisSettles

ClientSpec == Init /\ [][ClientNext]_vars

(***************************************************************************)
(* The display helpers, each applied to a value the component can hand it. *)
(***************************************************************************)
HelperInit ==
    /\ pc = "requestJson"
    /\ reqBody = Undefined
    /\ calls = 0
    /\ upStatus = 0
    /\ generatedText = Undefined
    /\ responses = <<>>
    /\ text = <<>>
    /\ progress = 0
    /\ isProcessing = FALSE
    /\ isAnalyzing = FALSE
    /\ error = JNull
    /\ structuredData = JNull
    /\ uploads = 0
    /\ ocr = {}
    /\ started = 0
    /\ inflight = {}
    /\ arg \in HelperInputs
    /\ formatted = NotCalled(<<>>)
    /\ summed = NotCalled(Zero)

\* formatValue(arg)
CallFormatValue ==
    /\ ~formatted.called
    /\ formatted' = FormatValue(arg)
    /\ UNCHANGED <<arg, summed>>
    /\ UNCHANGED <<serverVars, clientVars>>

\* calculateTotalDiscounts(arg)
CallCalculateTotalDiscounts ==
    /\ ~summed.called
    /\ summed' = CalculateTotalDiscounts(arg)
    /\ UNCHANGED <<arg, formatted>>
    /\ UNCHANGED <<serverVars, clientVars>>

HelperNext ==
    \/ CallFormatValue
    \/ CallCalculateTotalDiscounts

HelperSpec == HelperInit /\ [][HelperNext]_vars

(***************************************************************************)
(* Properties of the endpoint.                                             *)
(***************************************************************************)
Done == pc = "done"

\* the completion text was extracted (DataJson ran) and is a string
Extracted == Done /\ generatedText.t = "str"

\* the completion, fence-stripped, is valid JSON
Parses(c) == JsonParse(CleanText(c)).ok

DegradedRecord(raw) ==
    [t |-> "obj", v |-> (<<"raw">> :> [t |-> "str", v |-> raw])
                        @@ (<<"error">> :> [t |-> "str", v |-> MsgParse])]

\* C1: a completion that is not valid JSON after fence-stripping (the empty one
\* included) is answered, with status 200, by exactly the record {raw, error}
\* whose raw is the unstripped completion.
C1_DegradedOnUnparsable ==
    (Extracted /\ ~Parses(generatedText.v))
        => responses = <<[status |-> 200, body |-> DegradedRecord(generatedText.v)]>>

C1_Witness ==
    /\ Extracted
    /\ ~Parses(generatedText.v)
    /\ CleanText(generatedText.v) # generatedText.v
    /\ Len(responses) = 1

\* C2: the returned record is either well-formed with neither raw nor error
\* populated, or degraded (out of an unparsable completion) with exactly raw and
\* error.
C2_NeverPartiallyDegraded ==
    (Extracted /\ Len(responses) = 1 /\ responses[1].status = 200)
        => LET b == responses[1].body IN
           \/ ~Truthy(Get(b, KRaw)) /\ ~Truthy(Get(b, KError))
           \/ /\ ~Parses(generatedText.v)
              /\ b.t = "obj"
              /\ DOMAIN b.v = {KRaw, KError}

\* what the coercion of taxes / discounts is claimed to yield for a value v
ClaimedCharges(v) ==
    IF v.t = "arr" THEN v
    ELSE IF v.t = "obj" THEN JArr(<<v>>)
    ELSE JArr(<<>>)

\* what the coercion of items is claimed to yield for a value v
ClaimedItems(v) == IF v.t = "arr" THEN v ELSE JArr(<<v>>)

\* C3: in the well-formed outcome each of taxes, discounts and items present in
\* the parsed completion is an array, whatever value the key carried.
C3_ChargesAlwaysArrays ==
    (Extracted /\ Parses(generatedText.v) /\ Len(responses) = 1)
        => LET p == JsonParse(CleanText(generatedText.v)).val
               b == responses[1].body
           IN /\ \A k \in {KTaxes, KDiscounts} :
                    HasKey(p, k) => Get(b, k) = ClaimedCharges(p.v[k])
              /\ HasKey(p, KItems) => Get(b, KItems) = ClaimedItems(p.v[KItems])

\* Beside C3: what the code does do.  A present value that is truthy is coerced
\* as C3 says; a present value that is falsy (null, false, 0, "") is returned as
\* it was received.
C3_TruthyCoercedFalsyKept ==
    (Extracted /\ Parses(generatedText.v) /\ Len(responses) = 1)
        => LET p == JsonParse(CleanText(generatedText.v)).val
               b == responses[1].body
           IN /\ \A k \in {KTaxes, KDiscounts} :
                    HasKey(p, k) => Get(b, k) = (IF Truthy(p.v[k]) THEN ClaimedCharges(p.v[k])
                                                 ELSE p.v[k])
              /\ HasKey(p, KItems) => Get(b, KItems) = (IF Truthy(p.v[KItems])
                                                         THEN ClaimedItems(p.v[KItems])
                                                         ELSE p.v[KItems])

FenceSpaces == {<<>>, <<WS>>}

\* C4 as stated: for every completion c the fence-wrapped c normalizes to the
\* same record as c.
C4_FenceWrapSameRecord ==
    (Extracted /\ Len(responses) = 1 /\ responses[1].status = 200)
        => \A ws \in FenceSpaces :
              Normalize(JStr(FenceWrap(generatedText.v, ws))) = responses[1].body

\* C4 amended: the fence-wrapped c parses exactly when c does; when it parses the
\* two records are equal, and otherwise each is the degraded record of its own
\* unstripped text.
C4_FenceWrapSameParse ==
    (Extracted /\ Len(responses) = 1 /\ responses[1].status = 200)
        => \A ws \in FenceSpaces :
              LET w == FenceWrap(generatedText.v, ws) IN
              IF Parses(generatedText.v)
              THEN Normalize(JStr(w)) = responses[1].body
              ELSE /\ Normalize(JStr(w)) = DegradedRecord(w)
                   /\ responses[1].body = DegradedRecord(generatedText.v)

C4_Witness ==
    /\ Extracted
    /\ Parses(generatedText.v)
    /\ Len(responses) = 1
    /\ HasKey(responses[1].body, KTaxes)
    /\ CleanText(generatedText.v) = generatedText.v

\* the request has no text, or a text that is empty or only whitespace
BlankText(body) ==
    \/ body.t = "null"
    \/ Get(body, KText).t \in {"undefined", "null"}
    \/ Get(body, KText).t = "str" /\ Trim(Get(body, KText).v) = <<>>

\* C5: a request whose text is missing, empty or only whitespace is answered 400
\* with an error field, and the completion service is never called for it.
C5_BlankTextRejected ==
    (reqBody # Undefined /\ BlankText(reqBody))
        => /\ calls = 0
           /\ Done => /\ Len(responses) = 1
                      /\ responses[1].status = 400
                      /\ HasKey(responses[1].body, KError)

\* Beside C5: what the code does do.  No request with a blank text reaches the
\* completion service, and every such request but the one with a null body is
\* answered 400; the null body is answered 500.
C5_BlankTextNeverFetched ==
    (reqBody # Undefined /\ BlankText(reqBody))
        => /\ calls = 0
           /\ Done => /\ Len(responses) = 1
                      /\ HasKey(responses[1].body, KError)
                      /\ responses[1].status = (IF reqBody.t = "null" THEN 500 ELSE 400)

\* the completion service answered with a non-success status
UpstreamFailed == upStatus # 0 /\ ~Ok(upStatus)

\* C6: at most one call; a non-success status s is answered by {error}
\* with status s, without another call and without normalizing anything.
C6_UpstreamStatusPassedThrough ==
    /\ calls <= 1
    /\ (Done /\ UpstreamFailed)
          => /\ Len(responses) = 1
             /\ responses[1].status = upStatus
             /\ HasKey(responses[1].body, KError)
             /\ generatedText = Undefined

\* Beside C6: what the code does do.  A non-success status s is answered with
\* status s or, when reading the error body failed, with 500; there is one call
\* and nothing is normalized.
C6_UpstreamStatusOrServerError ==
    /\ calls <= 1
    /\ UpstreamFailed => calls = 1 /\ generatedText = Undefined
    /\ (Done /\ UpstreamFailed)
          => /\ Len(responses) = 1
             /\ \/ responses[1] = [status |-> upStatus, body |-> ErrorBody(MsgUpstream)]
                \/ responses[1] = [status |-> 500, body |-> ErrorBody(MsgServer)]

\* C7: every request ends in exactly one response, of one of the four kinds,
\* and no path ends without one.
C7_ExactlyOneResponse ==
    /\ ~Done => responses = <<>> /\ ENABLED Next
    /\ Done =>
          /\ Len(responses) = 1
          /\ LET r == responses[1] IN
             \/ r = [status |-> 400, body |-> ErrorBody(MsgNoText)] /\ calls = 0
             \/ r = [status |-> upStatus, body |-> ErrorBody(MsgUpstream)] /\ UpstreamFailed
             \/ r = [status |-> 500, body |-> ErrorBody(MsgServer)]
             \/ /\ r.status = 200
                /\ Ok(upStatus)
                /\ generatedText # Undefined
                /\ \/ r.body = JObj((KRaw :> generatedText) @@ (KError :> JStr(MsgParse)))
                   \/ generatedText.t = "str" /\ Parses(generatedText.v)

C7_Witness ==
    /\ Done
    /\ calls = 1
    /\ Ok(upStatus)
    /\ generatedText = Undefined
    /\ responses = <<[status |-> 500, body |-> ErrorBody(MsgServer)]>>

\* C15: in the well-formed outcome nothing but the shape of taxes, discounts and
\* items differs from the parsed completion: the result has exactly the keys of
\* the parsed completion, and every other key has the value it was parsed with.
C15_OtherKeysPassThrough ==
    (Extracted /\ Parses(generatedText.v) /\ Len(responses) = 1)
        => LET p == JsonParse(CleanText(generatedText.v)).val
               b == responses[1].body
           IN IF p.t = "obj"
              THEN /\ b.t = "obj"
                   /\ DOMAIN b.v = DOMAIN p.v
                   /\ \A k \in DOMAIN p.v \ {KTaxes, KDiscounts, KItems} : b.v[k] = p.v[k]
              ELSE b = p

C15_Witness ==
    /\ Extracted
    /\ Parses(generatedText.v)
    /\ Len(responses) = 1
    /\ HasKey(responses[1].body, KMerchant)
    /\ HasKey(responses[1].body, KTaxes)
    /\ responses[1].body # JsonParse(CleanText(generatedText.v)).val

(***************************************************************************)
(* Properties of the client.                                               *)
(***************************************************************************)
\* C8: no two extraction requests for the same transcript are in flight at the
\* same time.
C8_OneRequestPerTranscript ==
    \A r1 \in inflight, r2 \in inflight :
        r1.transcript = r2.transcript => r1 = r2

\* C9: the response of a request started before a newer request never sets the
\* result slot (structuredData or error) once the newer request has started.
C9_LastRequestWins ==
    [][\A r \in inflight \ inflight' :
          (structuredData' # structuredData \/ error' # error) => r.id = started]_vars

\* C10: a completion that could not be parsed reaches the user as a result: when
\* the error shown is the normalizer's, the degraded record is the current result
\* and its raw text is there to display.
C10_DegradedRecordIsResult ==
    error = JStr(MsgParse) => Get(structuredData, KRaw).t = "str"

\* C16: isAnalyzing is true whenever a started request has not settled and false
\* once every started request has settled, so the manual trigger is never
\* offered while a request is outstanding.
C16_InFlightFlagAccurate ==
    /\ isAnalyzing <=> inflight # {}
    /\ ManualButtonEnabled => inflight = {}

\* Beside C16: what the code does do.  The flag is never true without a request
\* in flight, and it is false once every started request has settled.
C16_FlagOnlyWhileInFlight ==
    isAnalyzing => inflight # {}

(***************************************************************************)
(* Properties of the display helpers.                                      *)
(***************************************************************************)
\* the array with its entries in the order p
Permuted(a, p) == [i \in 1..Len(a) |-> a[p[i]]]

\* C11: the sum of an array of charge entries is the same for every permutation
\* of the array.
C11_SumPermutationInvariant ==
    (summed.called /\ IsArray(arg))
        => \A p \in Permutations(1..Len(arg.v)) :
              CalculateTotalDiscounts(JArr(Permuted(arg.v, p))) = summed

\* Beside C11: what the code does do.  Exchanging the entries of an array of at
\* most two entries leaves the sum as it is.
C11_TwoEntriesCommute ==
    (summed.called /\ IsArray(arg) /\ Len(arg.v) <= 2)
        => \A p \in Permutations(1..Len(arg.v)) :
              CalculateTotalDiscounts(JArr(Permuted(arg.v, p))) = summed

\* what an amount counts as: a number as itself, a text as the decimal it
\* starts with, anything else (a text that starts with none, no amount) as 0
ClaimedAmount(entry) ==
    LET a == Get(entry, KAmount) IN
    IF a.t = "num" THEN a.v
    ELSE IF a.t = "str" /\ ~ParseFloat(a.v).nan THEN ParseFloat(a.v).val
    ELSE Zero

\* the sum of the amounts of the first n entries of a
RECURSIVE SumOfAmounts(_, _)
SumOfAmounts(a, n) ==
    IF n = 0 THEN Zero ELSE NumberAdd(SumOfAmounts(a, n - 1), ClaimedAmount(a[n]))

\* C12: the sum is 0 for null, undefined and the empty array; for an array the
\* sum of what its entries' amounts count as; for a single object what its
\* amount counts as; for a bare number that number.
C12_SumAsClaimed ==
    (summed.called /\ arg.t \in {"undefined", "null", "arr", "obj", "num"})
        => summed = Returned(CASE arg.t \in {"undefined", "null"} -> Zero
                               [] arg.t = "arr" -> SumOfAmounts(arg.v, Len(arg.v))
                               [] arg.t = "obj" -> ClaimedAmount(arg)
                               [] arg.t = "num" -> arg.v)

C12_Witness ==
    /\ summed.called
    /\ IsArray(arg)
    /\ Len(arg.v) >= 2
    /\ \E i \in 1..Len(arg.v) : Get(arg.v[i], KAmount) = JStr(<<"3", ".", "5", "0">>)
    /\ \E i \in 1..Len(arg.v) : Get(arg.v[i], KAmount) = JStr(<<"a">>)
    /\ \E i \in 1..Len(arg.v) : Get(arg.v[i], KAmount).t = "num"
    /\ summed.val # Zero

\* the type of an object, where it has one that annotates the amount
HasType(v) == Truthy(Get(v, KType))

\* the amount of an object with its annotation: "$" before it for the type
\* "USD", " <type>" after it for another type
ClaimedTagged(v) ==
    LET amount == FormatAmount(Get(v, KAmount)) IN
    IF ~HasType(v) THEN amount
    ELSE IF Get(v, KType) = JStr(KUsd) THEN <<"$">> \o amount
    ELSE amount \o <<" ">> \o ToStr(Get(v, KType))

\* an entry that has a type and an amount
IsTypedEntry(e) == e.t = "obj" /\ HasType(e) /\ HasKey(e, KAmount)

\* "<type>: <amount>"
ClaimedEntry(e) == ToStr(Get(e, KType)) \o <<":", " ">> \o FormatAmount(Get(e, KAmount))

\* what renders a value that no listed case covers: its string coercion as
\* stated (json FALSE); with json TRUE the JSON text of an object and the string
\* coercion of a text or boolean
Fallback(x, json) ==
    IF json /\ x.t = "obj" THEN Stringify(x) ELSE ToStr(x)

\* what renders an array entry that is not "<type>: <amount>": its string
\* coercion as stated (json FALSE), its JSON text with json TRUE
EntryFallback(e, json) == IF json THEN Stringify(e) ELSE ToStr(e)

\* the renderings of the entries of a from entry i on, joined by ", "
RECURSIVE ClaimedEntries(_, _, _)
ClaimedEntries(a, i, json) ==
    IF i > Len(a) THEN <<>>
    ELSE (IF i > 1 THEN <<",", " ">> ELSE <<>>)
            \o (IF IsTypedEntry(a[i]) THEN ClaimedEntry(a[i]) ELSE EntryFallback(a[i], json))
            \o ClaimedEntries(a, i + 1, json)

\* what formatValue is claimed to return
ClaimedFormat(v, json) ==
    CASE v.t \in {"undefined", "null"} -> <<"-">>
      [] v.t = "num" -> ToFixed(v.v, 2)
      [] v.t = "obj" /\ HasKey(v, KAmount) -> ClaimedTagged(v)
      [] v.t = "arr" -> ClaimedEntries(v.v, 1, json)
      [] OTHER -> Fallback(v, json)

\* C13 as stated: "-" for null and undefined, two decimals for a number, the
\* annotated amount for an object with an amount, "<type>: <amount>" joined by
\* ", " for an array, and the string coercion of every other value.
C13_FormatAsClaimed ==
    formatted.called => formatted = Returned(ClaimedFormat(arg, FALSE))

\* C13 amended: as stated, but an object without an amount, and an array entry
\* that lacks a type or an amount, is rendered as its JSON text; a text or a
\* boolean is rendered as its string coercion; a type that is absent or empty
\* annotates nothing.
C13_FormatJsonFallback ==
    formatted.called => formatted = Returned(ClaimedFormat(arg, TRUE))

C13_Witness ==
    /\ formatted.called
    /\ IsArray(arg)
    /\ Len(arg.v) >= 2
    /\ \E i \in 1..Len(arg.v) : IsTypedEntry(arg.v[i]) /\ Get(arg.v[i], KAmount).t = "num"
    /\ \E i \in 1..Len(arg.v) : ~IsTypedEntry(arg.v[i])

\* the three shapes of a money value: a number, a text, an object with a type
\* and an amount that is a number or a text
IsMoneyValue(v) ==
    \/ v.t \in {"num", "str"}
    \/ /\ v.t = "obj"
       /\ Get(v, KType).t = "str"
       /\ Get(v, KAmount).t \in {"num", "str"}

\* digits, a point, exactly two digits
IsTwoDecimals(chars) ==
    /\ Len(chars) >= 4
    /\ chars[Len(chars) - 2] = "."
    /\ \A i \in 1..Len(chars) : i # Len(chars) - 2 => chars[i] \in DecimalDigits

\* the display string without the currency prefix or type suffix of v
WithoutAnnotation(v, chars) ==
    IF v.t # "obj" \/ ~HasType(v) THEN chars
    ELSE IF Get(v, KType) = JStr(KUsd)
    THEN (IF chars # <<>> /\ Head(chars) = "$" THEN Tail(chars) ELSE chars)
    ELSE LET suffix == <<" ">> \o Get(v, KType).v
             n == Len(chars) - Len(suffix)
         IN IF n >= 0 /\ SubSeq(chars, n + 1, Len(chars)) = suffix
            THEN SubSeq(chars, 1, n) ELSE chars

\* the amount of a money value
MoneyAmount(v) == IF v.t = "obj" THEN Get(v, KAmount) ELSE v

\* C14: every money value is displayed as a two-decimal string (apart from its
\* currency prefix or type suffix), and the aggregation helper returns a number
\* for it that is 0 when its amount is not numeric.
C14_MoneyValueTwoDecimals ==
    IsMoneyValue(arg)
        => /\ formatted.called
                => /\ ~formatted.threw
                   /\ IsTwoDecimals(WithoutAnnotation(arg, formatted.val))
           /\ summed.called
                => /\ ~summed.threw
                   /\ (MoneyAmount(arg).t = "str" /\ ParseFloat(MoneyAmount(arg).v).nan)
                         => summed.val = Zero

\* Beside C14: what the code does do.  A money value whose amount is a number is
\* displayed with exactly two decimals; one whose amount is a text is displayed
\* as that text, whatever it holds.
C14_NumbersTwoDecimalsTextsKept ==
    (IsMoneyValue(arg) /\ formatted.called)
        => /\ ~formatted.threw
           /\ IF MoneyAmount(arg).t = "num"
              THEN IsTwoDecimals(WithoutAnnotation(arg, formatted.val))
              ELSE WithoutAnnotation(arg, formatted.val) = MoneyAmount(arg).v

====
